---- MODULE Spec2Model ----
(***************************************************************************)
(* Model of the code-error recommendation backend:                         *)
(*   backend/recommendation_engine_v3.py  (ErrorLogAnalyzer,               *)
(*       StaticCodeAnalysis, RuleBasedSystem, LanguageModelAnalyzer,       *)
(*       CodeErrorRecommendationEngine)                                    *)
(*   backend/main.py                      (the /debug endpoint)            *)
(*                                                                         *)
(* Texts are TLA+ strings handled character by character (Len, SubSeq,     *)
(* \o), so the regular expressions, strip, split, lower and the substring  *)
(* tests of the source are computed on the characters as Python computes   *)
(* them.                                                                   *)
(***************************************************************************)
EXTENDS Integers, Sequences, FiniteSets, TLC

VARIABLES
    pc,          \* position of the request in debug_code / debugg / analyze_error
    hashseed,    \* the str hash seed of the serving process
    code, log,   \* the fields of the DebugRequest
    error_info,  \* ErrorInfo returned by ErrorLogAnalyzer.analyze
    code_info,   \* CodeInfo returned by StaticCodeAnalysis.analyze
    path,        \* which branch of analyze_error built the result: "rule" or "lm"
    result,      \* RecommendationResult returned by analyze_error
    report,      \* the text returned by format_output
    gen_calls,   \* number of calls of generate_content
    generated,   \* response.text of the generation call
    raised,      \* the exception in flight
    response,    \* what the endpoint answers
    peer         \* a second request the same process serves on another thread

vars == <<pc, hashseed, code, log, error_info, code_info, path, result, report,
          gen_calls, generated, raised, response, peer>>

(***************************************************************************)
(* Bounds of the model.                                                    *)
(***************************************************************************)
\* number of vocabulary chunks concatenated into one log
MaxLogChunks == 3
\* number of source lines of the code of the static-analysis runs
MaxCodeLines == 7
\* largest line number in the logs of the static-analysis runs
MaxLine == 9
\* number of source lines of a code snippet of the end-to-end runs
MaxSnippetLines == 2

\* Python's None where a string is expected
None == "<None>"

\* Python's None where an Optional[int] is expected (a line number is never negative)
NoneInt == -1

(***************************************************************************)
(* Characters and character classes (str methods and the classes of re).   *)
(***************************************************************************)
Ch(s, i) == SubSeq(s, i, i)

CharsOf(s) == {Ch(s, i) : i \in 1..Len(s)}

UpperLetters == "ABCDEFGHIJKLMNOPQRSTUVWXYZ"

LowerLetters == "abcdefghijklmnopqrstuvwxyz"

DecimalChars == CharsOf("0123456789")

\* str.isdigit() also accepts digits that are not decimals, e.g. superscripts
DigitChars == DecimalChars \cup {"²"}

WordChars == CharsOf(UpperLetters) \cup CharsOf(LowerLetters) \cup DigitChars \cup {"_"}

SpaceChars == {" ", "\n", "\t", "\r"}

UpperChars == CharsOf(UpperLetters)

LowerMap == [c \in UpperChars |-> Ch(LowerLetters, CHOOSE i \in 1..26 : Ch(UpperLetters, i) = c)]

LowerCh(c) == IF c \in UpperChars THEN LowerMap[c] ELSE c

RECURSIVE lower(_)
\* str.lower()
lower(s) == IF s = "" THEN "" ELSE LowerCh(Ch(s, 1)) \o lower(SubSeq(s, 2, Len(s)))

RECURSIVE lstrip(_)
lstrip(s) == IF s # "" /\ Ch(s, 1) \in SpaceChars THEN lstrip(SubSeq(s, 2, Len(s))) ELSE s

RECURSIVE rstrip(_)
rstrip(s) == IF s # "" /\ Ch(s, Len(s)) \in SpaceChars THEN rstrip(SubSeq(s, 1, Len(s) - 1)) ELSE s

\* str.strip()
strip(s) == rstrip(lstrip(s))

\* the test `needle in s` on strings
Contains(s, needle) ==
    \E i \in 1..(Len(s) - Len(needle) + 1) : SubSeq(s, i, i + Len(needle) - 1) = needle

RECURSIVE SplitFrom(_, _, _)
SplitFrom(s, start, i) ==
    IF i > Len(s) THEN <<SubSeq(s, start, Len(s))>>
    ELSE IF Ch(s, i) = "\n" THEN <<SubSeq(s, start, i - 1)>> \o SplitFrom(s, i + 1, i + 1)
    ELSE SplitFrom(s, start, i + 1)

\* str.split('\n')
split(s) == SplitFrom(s, 1, 1)

RECURSIVE join(_)
\* '\n'.join(lines)
join(lines) ==
    IF Len(lines) = 0 THEN ""
    ELSE IF Len(lines) = 1 THEN lines[1]
    ELSE lines[1] \o "\n" \o join(Tail(lines))

\* the slice lines[start:end] with 0-based start and exclusive end
Slice(seq, start, end) == SubSeq(seq, start + 1, end)

Max(a, b) == IF a >= b THEN a ELSE b

Min(a, b) == IF a <= b THEN a ELSE b

\* str.isdigit()
isdigit(s) == s # "" /\ \A i \in 1..Len(s) : Ch(s, i) \in DigitChars

\* int(s) raises ValueError unless every character is a decimal digit
IntRaises(s) == \E i \in 1..Len(s) : Ch(s, i) \notin DecimalChars

DecimalValue(c) == CHOOSE d \in 0..9 : Ch("0123456789", d + 1) = c

RECURSIVE int(_)
\* int(s) for a string of decimal digits
int(s) == IF s = "" THEN 0
          ELSE 10 * int(SubSeq(s, 1, Len(s) - 1)) + DecimalValue(Ch(s, Len(s)))

(***************************************************************************)
(* Regular expressions: a pattern is a sequence of elements; matching is   *)
(* leftmost, greedy and backtracking as in Python's re.                    *)
(***************************************************************************)
\* a literal piece of a pattern, with its lower-case form for re.IGNORECASE
Lit(s) == [k |-> "lit", s |-> s, folded |-> lower(s)]

\* cls+ (min = 1) or cls* (min = 0), greedy
Rep(cls, min) == [k |-> "rep", cls |-> cls, min |-> min]

Open == [k |-> "open"]

Close == [k |-> "close"]

\* $ under re.MULTILINE
Eol == [k |-> "eol"]

InClass(c, cls) ==
    CASE cls = "w" -> c \in WordChars
      [] cls = "d" -> c \in DecimalChars
      [] cls = "s" -> c \in SpaceChars
      [] cls = "any" -> c # "\n"

NoMatch == [ok |-> FALSE, end |-> 0, groups |-> <<>>]

\* the literal stands at position pos of the text; folded is the lower-case
\* text under re.IGNORECASE and the text itself otherwise
LitAt(lit, folded, pos, ic) ==
    /\ pos + Len(lit.s) - 1 <= Len(folded)
    /\ SubSeq(folded, pos, pos + Len(lit.s) - 1) = (IF ic THEN lit.folded ELSE lit.s)

RECURSIVE Run(_, _, _)
\* length of the longest run of characters of the class starting at pos
Run(cls, text, pos) ==
    IF pos <= Len(text) /\ InClass(Ch(text, pos), cls) THEN 1 + Run(cls, text, pos + 1) ELSE 0

RECURSIVE MatchAt(_, _, _, _, _, _, _, _)
RECURSIVE TryRep(_, _, _, _, _, _, _, _, _)
\* match elements k.. of the pattern at position pos; gstart is the start of
\* the open group
MatchAt(p, k, pos, text, folded, ic, groups, gstart) ==
    IF k > Len(p) THEN [ok |-> TRUE, end |-> pos, groups |-> groups]
    ELSE LET e == p[k] IN
         CASE e.k = "lit" ->
                IF LitAt(e, folded, pos, ic)
                THEN MatchAt(p, k + 1, pos + Len(e.s), text, folded, ic, groups, gstart)
                ELSE NoMatch
           [] e.k = "open" -> MatchAt(p, k + 1, pos, text, folded, ic, groups, pos)
           [] e.k = "close" ->
                MatchAt(p, k + 1, pos, text, folded, ic,
                        Append(groups, SubSeq(text, gstart, pos - 1)), 0)
           [] e.k = "eol" ->
                IF pos = Len(text) + 1 \/ (pos <= Len(text) /\ Ch(text, pos) = "\n")
                THEN MatchAt(p, k + 1, pos, text, folded, ic, groups, gstart)
                ELSE NoMatch
           [] e.k = "rep" ->
                TryRep(p, k, pos, text, folded, ic, groups, gstart, Run(e.cls, text, pos))

TryRep(p, k, pos, text, folded, ic, groups, gstart, n) ==
    IF n < p[k].min THEN NoMatch
    ELSE LET r == MatchAt(p, k + 1, pos + n, text, folded, ic, groups, gstart) IN
         IF r.ok THEN r ELSE TryRep(p, k, pos, text, folded, ic, groups, gstart, n - 1)

RECURSIVE SearchFrom(_, _, _, _, _)
SearchFrom(p, text, folded, ic, start) ==
    IF start > Len(text) + 1 THEN NoMatch
    ELSE LET r == MatchAt(p, 1, start, text, folded, ic, <<>>, 0) IN
         IF r.ok THEN r ELSE SearchFrom(p, text, folded, ic, start + 1)

\* every literal piece of the pattern occurs in the text: without that no
\* position can match
HasLiterals(p, folded, ic) ==
    \A k \in 1..Len(p) :
        p[k].k = "lit" => Contains(folded, IF ic THEN p[k].folded ELSE p[k].s)

\* re.search(pattern, text, flags); ic is re.IGNORECASE
search(p, text, ic) ==
    LET folded == IF ic THEN lower(text) ELSE text IN
    IF HasLiterals(p, folded, ic) THEN SearchFrom(p, text, folded, ic, 1) ELSE NoMatch

RECURSIVE FindAllFrom(_, _, _)
FindAllFrom(p, text, start) ==
    LET r == SearchFrom(p, text, text, FALSE, start) IN
    IF ~r.ok THEN <<>>
    ELSE <<r.groups[1]>> \o FindAllFrom(p, text, r.end)

\* re.findall(pattern, text) for a pattern with one group
findall(p, text) == FindAllFrom(p, text, 1)

(***************************************************************************)
(* ErrorLogAnalyzer                                                        *)
(***************************************************************************)
\* the entries of the dict literal self.error_patterns, as written
error_patterns_literal == <<
    [re |-> "(\\w+Error): (.+) at line (\\d+)", lang |-> "python", classification |-> "runtime",
     p |-> <<Open, Rep("w", 1), Lit("Error"), Close, Lit(": "), Open, Rep("any", 1), Close,
             Lit(" at line "), Open, Rep("d", 1), Close>>],
    [re |-> "(\\w+Error): (.+)", lang |-> "python", classification |-> "runtime",
     p |-> <<Open, Rep("w", 1), Lit("Error"), Close, Lit(": "), Open, Rep("any", 1), Close>>],
    [re |-> "(\\w+Exception): (.+)", lang |-> "python", classification |-> "runtime",
     p |-> <<Open, Rep("w", 1), Lit("Exception"), Close, Lit(": "), Open, Rep("any", 1), Close>>],
    [re |-> "SyntaxError: (.+) at line (\\d+)", lang |-> "python", classification |-> "syntax",
     p |-> <<Lit("SyntaxError: "), Open, Rep("any", 1), Close, Lit(" at line "),
             Open, Rep("d", 1), Close>>],
    [re |-> "File \"(.+)\", line (\\d+), in (.+)\\n\\s*(.+)\\n(\\w+Error): (.+)",
     lang |-> "python", classification |-> "runtime",
     p |-> <<Lit("File \""), Open, Rep("any", 1), Close, Lit("\", line "), Open, Rep("d", 1), Close,
             Lit(", in "), Open, Rep("any", 1), Close, Lit("\n"), Rep("s", 0),
             Open, Rep("any", 1), Close, Lit("\n"), Open, Rep("w", 1), Lit("Error"), Close,
             Lit(": "), Open, Rep("any", 1), Close>>],
    [re |-> "json\\.decoder\\.JSONDecodeError: (.+)", lang |-> "python", classification |-> "runtime",
     p |-> <<Lit("json.decoder.JSONDecodeError: "), Open, Rep("any", 1), Close>>],
    [re |-> "Exception in thread \"(.+)\" (\\w+Exception): (.+) at (.+):(\\d+)",
     lang |-> "java", classification |-> "runtime",
     p |-> <<Lit("Exception in thread \""), Open, Rep("any", 1), Close, Lit("\" "),
             Open, Rep("w", 1), Lit("Exception"), Close, Lit(": "), Open, Rep("any", 1), Close,
             Lit(" at "), Open, Rep("any", 1), Close, Lit(":"), Open, Rep("d", 1), Close>>],
    [re |-> "(\\w+Exception): (.+)", lang |-> "java", classification |-> "runtime",
     p |-> <<Open, Rep("w", 1), Lit("Exception"), Close, Lit(": "), Open, Rep("any", 1), Close>>],
    [re |-> "(\\w+Error): (.+) at line (\\d+)", lang |-> "javascript", classification |-> "runtime",
     p |-> <<Open, Rep("w", 1), Lit("Error"), Close, Lit(": "), Open, Rep("any", 1), Close,
             Lit(" at line "), Open, Rep("d", 1), Close>>],
    [re |-> "ReferenceError: (.+) is not defined", lang |-> "javascript", classification |-> "runtime",
     p |-> <<Lit("ReferenceError: "), Open, Rep("any", 1), Close, Lit(" is not defined")>>],
    [re |-> "TypeError: (.+)", lang |-> "javascript", classification |-> "runtime",
     p |-> <<Lit("TypeError: "), Open, Rep("any", 1), Close>>],
    [re |-> "error: (.+) at line (\\d+)", lang |-> "c", classification |-> "syntax",
     p |-> <<Lit("error: "), Open, Rep("any", 1), Close, Lit(" at line "), Open, Rep("d", 1), Close>>],
    [re |-> "segmentation fault", lang |-> "c", classification |-> "runtime",
     p |-> <<Lit("segmentation fault")>>] >>

RECURSIVE DictItems(_, _)
\* the items of a dict built from a literal, in iteration order: a repeated key
\* keeps the position of its first occurrence and the value of its last
DictItems(entries, n) ==
    IF n = 0 THEN <<>>
    ELSE LET prev == DictItems(entries, n - 1)
             e == entries[n]
         IN IF \E i \in 1..Len(prev) : prev[i].re = e.re
            THEN [i \in 1..Len(prev) |-> IF prev[i].re = e.re THEN e ELSE prev[i]]
            ELSE Append(prev, e)

\* self.error_patterns.items()
error_patterns == DictItems(error_patterns_literal, Len(error_patterns_literal))

\* the members of ErrorClassification
ErrorClassification == {"syntax", "runtime", "logical", "semantic", "unknown"}

\* the members of ErrorSeverity
ErrorSeverity == {"Critical", "High", "Medium", "Low"}

var_patterns == <<
    <<Lit("'"), Open, Rep("w", 1), Close, Lit("' is not defined")>>,
    <<Lit("'"), Open, Rep("w", 1), Close, Lit("' has no attribute")>>,
    <<Lit("cannot access '"), Open, Rep("w", 1), Close, Lit("'")>>,
    <<Lit("variable '"), Open, Rep("w", 1), Close, Lit("'")>>,
    <<Lit("undefined variable '"), Open, Rep("w", 1), Close, Lit("'")>> >>

RECURSIVE ExtendAll(_, _, _)
\* variables after the loop over var_patterns[k..]
ExtendAll(pats, k, text) ==
    IF k > Len(pats) THEN <<>> ELSE findall(pats[k], text) \o ExtendAll(pats, k + 1, text)

Range(seq) == {seq[i] : i \in 1..Len(seq)}

Reverse(seq) == [i \in 1..Len(seq) |-> seq[Len(seq) + 1 - i]]

\* the seeds of str hashing a process can start with (PYTHONHASHSEED)
HashSeeds == {0, 1}

\* list(set(...)): the elements once each, in the iteration order of the set,
\* which for strings is fixed by the hash seed of the process
ListOfSet(S, seed) ==
    LET base == CHOOSE q \in [1..Cardinality(S) -> S] : Range(q) = S
    IN IF seed = 0 THEN base ELSE Reverse(base)

\* an extraction that returns the captures as found, repeats included
extract_variables_listed(error_log, seed) == ExtendAll(var_patterns, 1, error_log)

\* ErrorLogAnalyzer._extract_variables
extract_variables(error_log, seed) ==
    ListOfSet(Range(ExtendAll(var_patterns, 1, error_log)), seed)

line_patterns == <<
    <<Lit("line "), Open, Rep("d", 1), Close>>,
    <<Lit(":"), Open, Rep("d", 1), Close, Lit(":")>>,
    <<Lit("at "), Open, Rep("d", 1), Close>> >>

RECURSIVE ExtractLineFrom(_, _)
ExtractLineFrom(k, error_log) ==
    IF k > Len(line_patterns) THEN NoneInt
    ELSE LET m == search(line_patterns[k], error_log, FALSE) IN
         IF m.ok THEN int(m.groups[1]) ELSE ExtractLineFrom(k + 1, error_log)

\* ErrorLogAnalyzer._extract_line_number
extract_line_number(error_log) == ExtractLineFrom(1, error_log)

\* the last pattern of the table, from k on, that matches; 0 if none
LastMatchFrom(patterns, k, error_log) ==
    LET matching == {i \in k..Len(patterns) : search(patterns[i].p, error_log, TRUE).ok}
    IN IF matching = {} THEN 0 ELSE CHOOSE i \in matching : \A j \in matching : j <= i

RECURSIVE FirstMatchFrom(_, _, _)
\* index of the first pattern of the table, from k on, that matches; 0 if none
FirstMatchFrom(patterns, k, error_log) ==
    IF k > Len(patterns) THEN 0
    ELSE IF search(patterns[k].p, error_log, TRUE).ok THEN k
    ELSE FirstMatchFrom(patterns, k + 1, error_log)

RECURSIVE FirstDigitGroup(_, _)
\* the first group, from k on, with `group and group.isdigit()`; None if none
FirstDigitGroup(groups, k) ==
    IF k > Len(groups) THEN None
    ELSE IF isdigit(groups[k]) THEN groups[k]
    ELSE FirstDigitGroup(groups, k + 1)

\* no exception
NoException == [type |-> None, msg |-> None]

\* a call that returns v
Returned(v) == [raises |-> FALSE, exc |-> NoException, value |-> v]

\* a call that raises type(msg)
Raised(type, msg) == [raises |-> TRUE, exc |-> [type |-> type, msg |-> msg], value |-> <<>>]

\* ErrorLogAnalyzer.analyze, the body of `if match:` for the rule that matched
matched_info(rule, error_log, seed) ==
    LET groups == search(rule.p, error_log, TRUE).groups
        error_type == IF Len(groups) > 0 THEN groups[1] ELSE "UnknownError"
        digits == FirstDigitGroup(groups, 1)
    IN IF digits # None /\ IntRaises(digits)
       THEN Raised("ValueError", "invalid literal for int() with base 10: '" \o digits \o "'")
       ELSE IF rule.classification \notin ErrorClassification
       THEN Raised("ValueError", "'" \o rule.classification
                                 \o "' is not a valid ErrorClassification")
       ELSE Returned([error_type |-> error_type,
                      line_number |-> IF digits = None THEN NoneInt ELSE int(digits),
                      variables |-> extract_variables(error_log, seed),
                      full_message |-> error_log,
                      classification |-> rule.classification])

\* the fallback record with the classification of a matched rule
unmatched_info_runtime(error_log, seed) ==
    Returned([error_type |-> "UnknownError",
              line_number |-> extract_line_number(error_log),
              variables |-> extract_variables(error_log, seed),
              full_message |-> error_log,
              classification |-> "runtime"])

\* ErrorLogAnalyzer.analyze, the fallback for unmatched patterns
unmatched_info(error_log, seed) ==
    Returned([error_type |-> "UnknownError",
              line_number |-> extract_line_number(error_log),
              variables |-> extract_variables(error_log, seed),
              full_message |-> error_log,
              classification |-> "unknown"])

\* ErrorLogAnalyzer.analyze over a pattern table
analyze_with(patterns, raw_log, seed) ==
    LET error_log == strip(raw_log)
        k == FirstMatchFrom(patterns, 1, error_log)
    IN IF k # 0 THEN matched_info(patterns[k], error_log, seed)
       ELSE unmatched_info(error_log, seed)

\* ErrorLogAnalyzer.analyze
ErrorLogAnalyzer_analyze(raw_log, seed) == analyze_with(error_patterns, raw_log, seed)

(***************************************************************************)
(* StaticCodeAnalysis                                                      *)
(***************************************************************************)
\* self.language_patterns, in declaration order
language_patterns == <<
    [lang |-> "python",
     patterns |-> << <<Lit("def"), Rep("s", 1), Rep("w", 1)>>,
                     <<Lit("import"), Rep("s", 1), Rep("w", 1)>>,
                     <<Lit("print"), Rep("s", 0), Lit("(")>>,
                     <<Lit(":"), Rep("s", 0), Eol>> >>],
    [lang |-> "java",
     patterns |-> << <<Lit("public"), Rep("s", 1), Lit("class")>>,
                     <<Lit("System.out.print")>>,
                     <<Lit("public"), Rep("s", 1), Lit("static"), Rep("s", 1), Lit("void"),
                       Rep("s", 1), Lit("main")>> >>],
    [lang |-> "javascript",
     patterns |-> << <<Lit("function"), Rep("s", 1), Rep("w", 1)>>,
                     <<Lit("console.log")>>,
                     <<Lit("var"), Rep("s", 1), Rep("w", 1)>>,
                     <<Lit("let"), Rep("s", 1), Rep("w", 1)>> >>],
    [lang |-> "c",
     patterns |-> << <<Lit("#include")>>,
                     <<Lit("int"), Rep("s", 1), Lit("main")>>,
                     <<Lit("printf")>> >>],
    [lang |-> "cpp",
     patterns |-> << <<Lit("#include")>>,
                     <<Lit("std::")>>,
                     <<Lit("cout"), Rep("s", 0), Lit("<<")>> >>] >>

\* sum(1 for pattern in patterns if re.search(pattern, code, re.MULTILINE))
CountMatches(patterns, text) ==
    Cardinality({i \in 1..Len(patterns) : search(patterns[i], text, FALSE).ok})

\* detection by the largest number of markers present, the earliest language
\* among equals
DetectMost(k, text) ==
    LET counts == [j \in 1..Len(language_patterns) |->
                      CountMatches(language_patterns[j].patterns, text)]
        best == CHOOSE j \in 1..Len(language_patterns) :
                    /\ \A i \in 1..Len(language_patterns) : counts[i] <= counts[j]
                    /\ \A i \in 1..(j - 1) : counts[i] < counts[j]
    IN IF counts[best] = 0 THEN "unknown" ELSE language_patterns[best].lang

RECURSIVE DetectFrom(_, _)
DetectFrom(k, text) ==
    IF k > Len(language_patterns) THEN "unknown"
    ELSE IF CountMatches(language_patterns[k].patterns, text) >= 1
         THEN language_patterns[k].lang
         ELSE DetectFrom(k + 1, text)

\* detection that falls back to "python" when no marker is present
detect_language_default_python(text) ==
    LET lang == DetectFrom(1, text) IN IF lang = "unknown" THEN "python" ELSE lang

\* StaticCodeAnalysis._detect_language
detect_language(text) == DetectFrom(1, text)

\* `not line_number` for an Optional[int]
NotLine(line_number) == line_number = NoneInt \/ line_number = 0

\* the window without the test `line_number <= len(lines)`
extract_error_lines_unguarded(text, line_number) ==
    IF NotLine(line_number) THEN <<split(text)[1]>>
    ELSE LET lines == split(text) IN
         Slice(lines, Max(0, line_number - 2), Min(Len(lines), line_number + 1))

\* a window that starts two lines before the error line
extract_error_lines_two_before(text, line_number) ==
    IF NotLine(line_number) THEN <<split(text)[1]>>
    ELSE LET lines == split(text) IN
         IF line_number <= Len(lines)
         THEN Slice(lines, Max(0, line_number - 3), Min(Len(lines), line_number + 1))
         ELSE <<>>

\* StaticCodeAnalysis._extract_error_lines
extract_error_lines(text, line_number) ==
    IF NotLine(line_number) THEN <<split(text)[1]>>
    ELSE LET lines == split(text) IN
         IF line_number <= Len(lines)
         THEN Slice(lines, Max(0, line_number - 2), Min(Len(lines), line_number + 1))
         ELSE <<>>

block_keywords == <<"def ", "class ", "for ", "while ", "if ">>

\* any(keyword in line for keyword in [...])
AnyKeywordIn(keywords, line) == \E j \in 1..Len(keywords) : Contains(line, keywords[j])

RECURSIVE ScanBackToTop(_, _, _)
\* a backward scan that ends at index 0 when it finds no keyword
ScanBackToTop(lines, i, start_line) ==
    IF i < 0 THEN 0
    ELSE IF AnyKeywordIn(block_keywords, strip(lines[i + 1])) THEN i
    ELSE ScanBackToTop(lines, i - 1, start_line)

RECURSIVE ScanBack(_, _, _)
\* the backward loop `for i in range(start_line, -1, -1)` at index i (0-based):
\* the value of start_line after the loop
ScanBack(lines, i, start_line) ==
    IF i < 0 THEN start_line
    ELSE IF AnyKeywordIn(block_keywords, strip(lines[i + 1])) THEN i
    ELSE ScanBack(lines, i - 1, start_line)

\* StaticCodeAnalysis._identify_error_block
identify_error_block(text, line_number) ==
    IF NotLine(line_number) THEN SubSeq(text, 1, Min(Len(text), 200))
    ELSE LET lines == split(text) IN
         IF line_number <= Len(lines)
         THEN LET start0 == Max(0, line_number - 1)
                  start_line == ScanBack(lines, start0, start0)
                  end_line == Min(Len(lines), line_number + 5)
              IN join(Slice(lines, start_line, end_line))
         ELSE text

\* StaticCodeAnalysis._determine_code_intent
determine_code_intent(code_block, language) ==
    LET code_lower == strip(lower(code_block)) IN
    IF Contains(code_lower, "def ") \/ Contains(code_lower, "function ") THEN "function definition"
    ELSE IF AnyKeywordIn(<<"for ", "while ">>, code_lower) THEN "loop"
    ELSE IF Contains(code_lower, "class ") THEN "class definition"
    ELSE IF AnyKeywordIn(<<"if ", "elif ", "else">>, code_lower) THEN "conditional statement"
    ELSE IF Contains(code_lower, "=") /\ ~Contains(code_lower, "==") THEN "variable assignment"
    ELSE IF AnyKeywordIn(<<"import ", "#include">>, code_lower) THEN "import/include statement"
    ELSE "code execution"

\* StaticCodeAnalysis.analyze
StaticCodeAnalysis_analyze(text, info) ==
    LET language == detect_language(text)
        error_lines == extract_error_lines(text, info.line_number)
        error_block == identify_error_block(text, info.line_number)
        intent == determine_code_intent(error_block, language)
    IN [language |-> language, error_block |-> error_block,
        error_lines |-> error_lines, intent |-> intent]

(***************************************************************************)
(* RuleBasedSystem                                                         *)
(***************************************************************************)
\* the entries of the dict literal self.rules, as written
rules_literal == <<
    [key |-> <<"IndexError", "python">>,
     explanation |-> "An IndexError occurs when trying to access a list, tuple, or string index that doesn't exist.",
     severity |-> "High",
     impact |-> "This will halt program execution immediately and may cause data loss if not handled.",
     fixes |-> <<
            [title |-> "Bounds Checking",
             code |-> "if index < len(my_list):\n    value = my_list[index]",
             explanation |-> "Always check if the index is within valid range before accessing."],
            [title |-> "Use Enumerate",
             code |-> "for i, item in enumerate(my_list):\n    # Process item",
             explanation |-> "Use enumerate() to safely iterate with indices."]>>,
     best_practices |-> <<
            "Always validate array/list bounds before accessing elements",
            "Use len() function to check collection size",
            "Consider using try/except blocks for error handling">>],
    [key |-> <<"NameError", "python">>,
     explanation |-> "A NameError occurs when trying to use a variable or function name that hasn't been defined.",
     severity |-> "High",
     impact |-> "This prevents the code from running and indicates a missing variable definition.",
     fixes |-> <<
            [title |-> "Define Variable",
             code |-> "variable_name = initial_value",
             explanation |-> "Ensure the variable is defined before using it."],
            [title |-> "Check Imports",
             code |-> "from module import function_name",
             explanation |-> "Make sure required functions are properly imported."]>>,
     best_practices |-> <<
            "Define all variables before using them",
            "Check spelling of variable and function names",
            "Ensure proper import statements">>],
    [key |-> <<"SyntaxError", "python">>,
     explanation |-> "A SyntaxError occurs when Python cannot parse the code due to incorrect syntax.",
     severity |-> "Critical",
     impact |-> "The code cannot run at all until the syntax is fixed.",
     fixes |-> <<
            [title |-> "Check Indentation",
             code |-> "if condition:\n    statement  # Proper indentation",
             explanation |-> "Ensure consistent indentation (4 spaces recommended)."],
            [title |-> "Check Parentheses",
             code |-> "result = function(arg1, arg2)",
             explanation |-> "Make sure all parentheses, brackets, and braces are properly closed."]>>,
     best_practices |-> <<
            "Use consistent indentation (4 spaces)",
            "Match all opening and closing brackets/parentheses",
            "Use a code editor with syntax highlighting">>],
    [key |-> <<"ZeroDivisionError", "python">>,
     explanation |-> "A ZeroDivisionError occurs when attempting to divide by zero.",
     severity |-> "High",
     impact |-> "This will halt program execution and indicates improper input validation.",
     fixes |-> <<
            [title |-> "Check Divisor",
             code |-> "if divisor != 0:\n    result = numerator / divisor\nelse:\n    result = float('inf')",
             explanation |-> "Always check if the divisor is zero before performing division."],
            [title |-> "Use Try-Except",
             code |-> "try:\n    result = numerator / divisor\nexcept ZeroDivisionError:\n    result = None  # or handle appropriately",
             explanation |-> "Handle division by zero with exception handling."]>>,
     best_practices |-> <<
            "Validate inputs before mathematical operations",
            "Consider what should happen when division by zero occurs",
            "Use appropriate default values or error handling">>],
    [key |-> <<"AttributeError", "python">>,
     explanation |-> "An AttributeError occurs when trying to access an attribute or method that doesn't exist on an object.",
     severity |-> "High",
     impact |-> "This will crash the program and often indicates None values or incorrect object types.",
     fixes |-> <<
            [title |-> "None Check",
             code |-> "if obj is not None:\n    result = obj.attribute\nelse:\n    result = default_value",
             explanation |-> "Check if the object is None before accessing its attributes."],
            [title |-> "Hasattr Check",
             code |-> "if hasattr(obj, 'attribute'):\n    result = obj.attribute\nelse:\n    result = default_value",
             explanation |-> "Use hasattr() to check if an attribute exists before accessing it."]>>,
     best_practices |-> <<
            "Always validate object state before accessing attributes",
            "Initialize objects properly in constructors",
            "Use getattr() with default values for optional attributes">>],
    [key |-> <<"KeyError", "python">>,
     explanation |-> "A KeyError occurs when trying to access a dictionary key that doesn't exist.",
     severity |-> "High",
     impact |-> "This will halt execution and indicates missing data validation or incorrect key usage.",
     fixes |-> <<
            [title |-> "Key Check",
             code |-> "if key in dictionary:\n    value = dictionary[key]\nelse:\n    value = default_value",
             explanation |-> "Check if the key exists in the dictionary before accessing it."],
            [title |-> "Use Get Method",
             code |-> "value = dictionary.get(key, default_value)",
             explanation |-> "Use the get() method with a default value to safely access dictionary keys."]>>,
     best_practices |-> <<
            "Validate dictionary keys before access",
            "Use dict.get() method for safe key access",
            "Handle missing keys gracefully with appropriate defaults">>],
    [key |-> <<"RecursionError", "python">>,
     explanation |-> "A RecursionError occurs when the maximum recursion depth is exceeded, usually due to infinite recursion.",
     severity |-> "High",
     impact |-> "This will crash the program and may consume excessive memory before failing.",
     fixes |-> <<
            [title |-> "Add Base Case",
             code |-> "def recursive_func(n):\n    if n <= 0:  # Base case\n        return 0\n    return n + recursive_func(n-1)",
             explanation |-> "Ensure your recursive function has a proper base case to terminate recursion."],
            [title |-> "Convert to Iterative",
             code |-> "def iterative_func(n):\n    result = 0\n    for i in range(1, n+1):\n        result += i\n    return result",
             explanation |-> "Consider converting recursive algorithms to iterative ones for large inputs."]>>,
     best_practices |-> <<
            "Always define clear base cases for recursive functions",
            "Consider iterative solutions for large datasets",
            "Use sys.setrecursionlimit() carefully if needed">>],
    [key |-> <<"RuntimeError", "python">>,
     explanation |-> "A RuntimeError occurred, often related to async operations or system-level issues.",
     severity |-> "High",
     impact |-> "This indicates improper usage of runtime features like async/await or system resources.",
     fixes |-> <<
            [title |-> "Proper Async Usage",
             code |-> "import asyncio\n\nasync def main():\n    result = await async_function()\n    return result\n\nasyncio.run(main())",
             explanation |-> "Use asyncio.run() or await keyword properly for coroutines."],
            [title |-> "Exception Handling",
             code |-> "try:\n    # Problematic operation\n    pass\nexcept RuntimeError as e:\n    print(f\"Runtime error: {e}\")",
             explanation |-> "Handle runtime errors with specific exception catching."]>>,
     best_practices |-> <<
            "Use proper async/await patterns for coroutines",
            "Handle system-level errors appropriately",
            "Validate runtime conditions before operations">>],
    [key |-> <<"JSONDecodeError", "python">>,
     explanation |-> "A JSONDecodeError occurs when trying to parse invalid JSON data.",
     severity |-> "High",
     impact |-> "This will halt execution and indicates malformed or invalid JSON input.",
     fixes |-> <<
            [title |-> "Validate JSON",
             code |-> "import json\n\ntry:\n    data = json.loads(json_string)\nexcept json.JSONDecodeError as e:\n    print(f\"Invalid JSON: {e}\")\n    data = {}",
             explanation |-> "Always wrap JSON parsing in try-except blocks to handle invalid data."],
            [title |-> "Pre-validate Format",
             code |-> "if json_string.strip().startswith(('{', '[')):\n    data = json.loads(json_string)\nelse:\n    raise ValueError(\"Not valid JSON format\")",
             explanation |-> "Perform basic format validation before attempting to parse JSON."]>>,
     best_practices |-> <<
            "Always validate JSON input before parsing",
            "Use proper exception handling for JSON operations",
            "Provide meaningful error messages for invalid JSON">>],
    [key |-> <<"NullPointerException", "java">>,
     explanation |-> "A NullPointerException occurs when trying to use a reference that points to no location in memory (null).",
     severity |-> "High",
     impact |-> "This will crash the program and may indicate improper object initialization.",
     fixes |-> <<
            [title |-> "Null Check",
             code |-> "if (object != null) {\n    object.method();\n}",
             explanation |-> "Always check for null before using an object reference."],
            [title |-> "Initialize Object",
             code |-> "MyObject obj = new MyObject();",
             explanation |-> "Ensure objects are properly initialized before use."]>>,
     best_practices |-> <<
            "Always initialize objects before using them",
            "Use null checks when objects might be null",
            "Consider using Optional<T> in Java 8+">>] >>

\* the keys of self.rules
RuleKeys == {rules_literal[i].key : i \in 1..Len(rules_literal)}

\* self.rules[key]: the last entry of the literal with that key
rules == [key \in RuleKeys |->
            rules_literal[CHOOSE i \in 1..Len(rules_literal) :
                             /\ rules_literal[i].key = key
                             /\ \A j \in (i + 1)..Len(rules_literal) : rules_literal[j].key # key]]

\* the key with its components in the other order
RuleKeySwapped(info, cinfo) == <<cinfo.language, info.error_type>>

\* the key RuleBasedSystem.get_recommendation looks up
RuleKey(info, cinfo) == <<info.error_type, cinfo.language>>

\* `if rule_recommendation:` on self.rules.get(key): present and a non-empty dict
get_recommendation_hits(info, cinfo) == RuleKey(info, cinfo) \in DOMAIN rules

\* RuleBasedSystem.get_recommendation when the key is present
get_recommendation(info, cinfo) == rules[RuleKey(info, cinfo)]

(***************************************************************************)
(* LanguageModelAnalyzer                                                   *)
(***************************************************************************)
RECURSIVE str(_)
\* str(n) for a non-negative int
str(n) == IF n < 10 THEN Ch("0123456789", n + 1)
          ELSE str(n \div 10) \o Ch("0123456789", (n % 10) + 1)

\* a severity map that rates runtime errors like unknown ones
severity_map_runtime_medium == [c \in ErrorClassification |->
    IF c = "syntax" THEN "Critical" ELSE "Medium"]

\* severity_map of analyze_complex_error
severity_map == [c \in ErrorClassification |->
    CASE c = "syntax" -> "Critical"
      [] c = "runtime" -> "High"
      [] c = "logical" -> "Medium"
      [] c = "semantic" -> "Medium"
      [] c = "unknown" -> "Medium"]

\* a lookup that rates what is not syntax or runtime as "Low"
severity_of_low_default(classification) ==
    IF classification \in {"syntax", "runtime"} THEN severity_map[classification] ELSE "Low"

\* severity_map.get(error_info.classification, ErrorSeverity.MEDIUM)
severity_of(classification) ==
    IF classification \in DOMAIN severity_map THEN severity_map[classification] ELSE "Medium"

\* LanguageModelAnalyzer._generate_explanation
generate_explanation(info, cinfo) ==
    LET s1 == "A " \o info.error_type \o " occurred"
        s2 == IF ~NotLine(info.line_number)
              THEN s1 \o " at line " \o str(info.line_number) ELSE s1
        s3 == IF cinfo.intent = "loop" THEN s2 \o " within a loop structure"
              ELSE IF cinfo.intent = "function definition" THEN s2 \o " in a function definition"
              ELSE IF cinfo.intent = "variable assignment" THEN s2 \o " during variable assignment"
              ELSE s2
        s4 == IF info.classification = "runtime"
              THEN s3 \o ". This is a runtime error that occurs during program execution"
              ELSE IF info.classification = "syntax"
              THEN s3 \o ". This is a syntax error that prevents the code from running"
              ELSE s3
    IN s4 \o " in " \o cinfo.language \o " code."

\* impact_map of _assess_impact
impact_map == [s \in ErrorSeverity |->
    CASE s = "Critical" -> "This will prevent the program from running entirely and must be fixed immediately."
      [] s = "High" -> "This will cause the program to crash and may result in data loss or unexpected behavior."
      [] s = "Medium" -> "This may cause incorrect results or unexpected behavior in certain conditions."
      [] s = "Low" -> "This is a minor issue that may affect code quality or performance."]

\* LanguageModelAnalyzer._assess_impact
assess_impact(info, severity) ==
    IF severity \in DOMAIN impact_map THEN impact_map[severity] ELSE "Impact assessment unavailable."

\* the fix appended for one variable
VariableFix(var) ==
    [title |-> "Initialize " \o var,
     code |-> var \o " = appropriate_initial_value",
     explanation |-> "Ensure the variable \"" \o var \o "\" is properly defined and initialized."]

\* LanguageModelAnalyzer._generate_fixes
generate_fixes(info, cinfo) ==
    LET generic ==
          IF info.classification = "syntax"
          THEN << [title |-> "Fix Syntax",
                   code |-> "# Check for missing colons, parentheses, or indentation issues",
                   explanation |-> "Review the syntax around the error line for common issues."] >>
          ELSE IF info.classification = "runtime"
          THEN << [title |-> "Add Error Handling",
                   code |-> "try:\n    # Problematic code here\nexcept Exception as e:\n    print(f\"Error: {e}\")",
                   explanation |-> "Wrap the problematic code in a try-except block to handle errors gracefully."] >>
          ELSE <<>>
    IN generic \o [i \in 1..Len(info.variables) |-> VariableFix(info.variables[i])]

\* LanguageModelAnalyzer._generate_best_practices
generate_best_practices(info, cinfo) ==
    LET by_language ==
          IF cinfo.language = "python"
          THEN <<"Follow PEP 8 style guidelines for Python code",
                 "Use meaningful variable names",
                 "Add docstrings to functions and classes">>
          ELSE IF cinfo.language = "java"
          THEN <<"Follow Java naming conventions",
                 "Use proper exception handling",
                 "Initialize objects before use">>
          ELSE <<>>
        by_class ==
          IF info.classification = "runtime"
          THEN <<"Implement proper error handling and validation">>
          ELSE IF info.classification = "syntax"
          THEN <<"Use an IDE with syntax highlighting and error detection">>
          ELSE <<>>
    IN by_language \o by_class

\* LanguageModelAnalyzer.analyze_complex_error
analyze_complex_error(info, cinfo) ==
    LET severity == severity_of(info.classification) IN
    [explanation |-> generate_explanation(info, cinfo),
     severity |-> severity,
     impact |-> assess_impact(info, severity),
     fixes |-> generate_fixes(info, cinfo),
     best_practices |-> generate_best_practices(info, cinfo)]

(***************************************************************************)
(* CodeErrorRecommendationEngine                                           *)
(***************************************************************************)
\* reasoning_map of _generate_priority_reasoning
reasoning_map == [s \in ErrorSeverity |->
    CASE s = "Critical" -> "This error prevents code execution entirely and should be addressed immediately to restore functionality."
      [] s = "High" -> "This error causes program crashes and may lead to data loss, making it a high priority for resolution."
      [] s = "Medium" -> "This error may cause incorrect behavior under certain conditions and should be addressed in the next development cycle."
      [] s = "Low" -> "This is a code quality issue that can be addressed during routine maintenance or refactoring."]

\* a lookup by the name of the enum member (CRITICAL, HIGH, ...) in a table
\* keyed by the members
generate_priority_reasoning_by_name(severity) ==
    IF severity \in {"CRITICAL", "HIGH", "MEDIUM", "LOW"} THEN reasoning_map["High"]
    ELSE "Priority assessment unavailable."

\* CodeErrorRecommendationEngine._generate_priority_reasoning
generate_priority_reasoning(severity) ==
    IF severity \in DOMAIN reasoning_map THEN reasoning_map[severity]
    ELSE "Priority assessment unavailable."

\* RecommendationResult(...) built from a recommendation dict, as in both
\* branches of analyze_error
RecommendationResult(rec) ==
    [explanation |-> rec.explanation,
     severity |-> rec.severity,
     impact |-> rec.impact,
     proposed_fixes |-> rec.fixes,
     best_practices |-> rec.best_practices,
     priority_reasoning |-> generate_priority_reasoning(rec.severity)]

RECURSIVE FixLines(_, _)
\* the lines format_output appends for fixes i.. (numbered from 1)
FixLines(fixes, i) ==
    IF i > Len(fixes) THEN <<>>
    ELSE << "\n" \o str(i) \o ". " \o fixes[i].title,
            "   Code: " \o fixes[i].code,
            "   Explanation: " \o fixes[i].explanation >> \o FixLines(fixes, i + 1)

RECURSIVE Times(_, _)
\* s * n
Times(s, n) == IF n = 0 THEN "" ELSE s \o Times(s, n - 1)

\* CodeErrorRecommendationEngine.format_output; the pictographs of the section
\* titles are written by their code points
format_output(res) ==
    join( << Times("=", 60), "CODE ERROR ANALYSIS REPORT", Times("=", 60),
             "\n<U+1F50D> EXPLANATION:", res.explanation,
             "\n<U+26A0>  SEVERITY: " \o res.severity,
             "<U+1F4CA> IMPACT: " \o res.impact,
             "\n<U+1F3AF> PRIORITY REASONING:", res.priority_reasoning,
             "\n<U+1F527> PROPOSED FIXES:" >>
          \o FixLines(res.proposed_fixes, 1)
          \o << "\n<U+1F4A1> BEST PRACTICES:" >>
          \o [i \in 1..Len(res.best_practices) |-> "<U+2022> " \o res.best_practices[i]]
          \o << "\n" \o Times("=", 60) >> )

\* CodeErrorRecommendationEngine.analyze_error as one call: the bundle, or the
\* exception of step 1
analyze_error(text, error_log, seed) ==
    LET r == ErrorLogAnalyzer_analyze(error_log, seed) IN
    IF r.raises THEN r
    ELSE LET cinfo == StaticCodeAnalysis_analyze(text, r.value) IN
         IF get_recommendation_hits(r.value, cinfo)
         THEN Returned(RecommendationResult(get_recommendation(r.value, cinfo)))
         ELSE Returned(RecommendationResult(analyze_complex_error(r.value, cinfo)))

\* debugg, its first two statements: the report of a request served by a
\* process of the given hash seed, None when analyze_error raises
ReportOf(text, error_log, seed) ==
    LET r == analyze_error(text, error_log, seed) IN
    IF r.raises THEN None ELSE format_output(r.value)

(***************************************************************************)
(* Inputs                                                                  *)
(***************************************************************************)
\* the pieces the logs of the log-analysis runs are concatenated from
LogChunks == {"SyntaxError: ", "IOException: ", "error: ", "'price' is not defined", "²",
              " at line 3", "segmentation fault"}

RECURSIVE Concats(_, _)
\* the concatenations of at most n members of S
Concats(S, n) ==
    IF n = 0 THEN {""}
    ELSE LET prev == Concats(S, n - 1) IN prev \cup {p \o c : p \in prev, c \in S}

ChunkLogs == Concats(LogChunks, MaxLogChunks)

LogHeads == {"NameError: ", "nameerror: ", "NullPointerException: ", "CustomWeirdError: ",
             "SyntaxError: ", "error: ", ""}

LogMessages == {"name 'price' is not defined", "something broke", "²",
                "variable 'x' is unset and 'y' is not defined"}

LogTails == {"", " at line 0", " at line 2", " at line 9"}

\* the logs of the end-to-end runs
PipelineLogs == {h \o m \o t : h \in LogHeads, m \in LogMessages, t \in LogTails}

SnippetLines == {"total = calculate_total()", "def calculate_total():", "public class Main {"}

RECURSIVE Texts(_, _)
\* the texts of 1..n lines, each line a member of S
Texts(S, n) ==
    IF n = 1 THEN S
    ELSE LET prev == Texts(S, n - 1) IN prev \cup {p \o "\n" \o l : p \in prev, l \in S}

\* the code snippets of the end-to-end runs
PipelineCodes == {""} \cup Texts(SnippetLines, MaxSnippetLines)

\* the logs of the static-analysis runs: no line number, or "line n"
LineLogs == {""} \cup {"line " \o str(n) : n \in 0..MaxLine}

\* the code of the static-analysis runs: plain lines and block-opening lines
CodeLines == {"x = 1", "while x:"}

LongCodes == {""} \cup Texts(CodeLines, MaxCodeLines)

\* the pieces the logs of the identifier-extraction runs are concatenated from
VarChunks == {"undefined variable 'x'", "variable 'x'", " 'y' is not defined",
              "cannot access 'x'", " 'x' has no attribute", "NameError: "}

VarLogs == Concats(VarChunks, MaxLogChunks)

\* the code and the logs of the requests served concurrently
ConcCodes == {"", "def calculate_total():"}

ConcLogs == {"NameError: name 'price' is not defined", "CustomWeirdError: something broke",
             "SyntaxError: ²"}

\* the lines of the code of the language-detection runs: one marker line per
\* language and a line with no marker
LangLines == {"def f():", "public class Main {", "console.log(x)", "#include <a.h>",
              "std::cout << x;", "x = 1"}

LangCodes == {""} \cup Texts(LangLines, MaxSnippetLines)

\* what the generation call can do: return text, return no text, or fail
GenOutcomes == {[kind |-> "text", text |-> "total = 0"],
                [kind |-> "none", text |-> None],
                [kind |-> "error", text |-> "503 UNAVAILABLE"]}

(***************************************************************************)
(* State machine of one /debug request                                     *)
(***************************************************************************)
NoErrorInfo == [error_type |-> None, line_number |-> NoneInt, variables |-> <<>>,
                full_message |-> None, classification |-> None]

NoCodeInfo == [language |-> None, error_block |-> None, error_lines |-> <<>>, intent |-> None]

NoResult == [explanation |-> None, severity |-> None, impact |-> None, proposed_fixes |-> <<>>,
             best_practices |-> <<>>, priority_reasoning |-> None]

NoResponse == [status |-> 0]

\* the locals of a request that debug_code has just received
Request(text, error_log) ==
    [pc |-> "received", code |-> text, log |-> error_log, error_info |-> NoErrorInfo,
     code_info |-> NoCodeInfo, path |-> "none", result |-> NoResult, report |-> None,
     gen_calls |-> 0, generated |-> None, raised |-> NoException, response |-> NoResponse]

\* no second request is being served
NoPeer == [Request("", "") EXCEPT !.pc = "absent"]

Received(codes, logs) ==
    /\ pc = "received"
    /\ hashseed \in HashSeeds
    /\ code \in codes
    /\ log \in logs
    /\ error_info = NoErrorInfo
    /\ code_info = NoCodeInfo
    /\ path = "none"
    /\ result = NoResult
    /\ report = None
    /\ gen_calls = 0
    /\ generated = None
    /\ raised = NoException
    /\ response = NoResponse
    /\ peer = NoPeer

\* analyze_error, step 1: self.error_analyzer.analyze(error_log)
ErrorAnalyze ==
    /\ pc = "received"
    /\ LET r == ErrorLogAnalyzer_analyze(log, hashseed) IN
       IF r.raises
       THEN /\ pc' = "raised"
            /\ raised' = r.exc
            /\ UNCHANGED error_info
       ELSE /\ pc' = "log_analyzed"
            /\ error_info' = r.value
            /\ UNCHANGED raised
    /\ UNCHANGED <<peer, hashseed, code, log, code_info, path, result, report, gen_calls, generated,
                   response>>

\* analyze_error, step 2: self.code_analyzer.analyze(code, error_info)
CodeAnalyze ==
    /\ pc = "log_analyzed"
    /\ code_info' = StaticCodeAnalysis_analyze(code, error_info)
    /\ pc' = "code_analyzed"
    /\ UNCHANGED <<peer, hashseed, code, log, error_info, path, result, report, gen_calls, generated,
                   raised, response>>

\* analyze_error, step 3, `if rule_recommendation:` branch
RuleRecommend ==
    /\ pc = "code_analyzed"
    /\ get_recommendation_hits(error_info, code_info)
    /\ result' = RecommendationResult(get_recommendation(error_info, code_info))
    /\ path' = "rule"
    /\ pc' = "analyzed"
    /\ UNCHANGED <<peer, hashseed, code, log, error_info, code_info, report, gen_calls, generated,
                   raised, response>>

\* analyze_error, step 3, else branch
LMRecommend ==
    /\ pc = "code_analyzed"
    /\ ~get_recommendation_hits(error_info, code_info)
    /\ result' = RecommendationResult(analyze_complex_error(error_info, code_info))
    /\ path' = "lm"
    /\ pc' = "analyzed"
    /\ UNCHANGED <<peer, hashseed, code, log, error_info, code_info, report, gen_calls, generated,
                   raised, response>>

\* debugg: report = self.format_output(result)
FormatOutput ==
    /\ pc = "analyzed"
    /\ report' = format_output(result)
    /\ pc' = "formatted"
    /\ UNCHANGED <<peer, hashseed, code, log, error_info, code_info, path, result, gen_calls,
                   generated, raised, response>>

\* a generation step that issues the call again after a first failure
GenerateContentRetrying ==
    /\ pc = "formatted"
    /\ gen_calls' = gen_calls + 1
    /\ \E o \in GenOutcomes :
          IF o.kind = "error" /\ gen_calls = 0
          THEN /\ pc' = "formatted"
               /\ UNCHANGED <<generated, raised>>
          ELSE IF o.kind = "error"
          THEN /\ pc' = "raised"
               /\ raised' = [type |-> "ClientError", msg |-> o.text]
               /\ UNCHANGED generated
          ELSE /\ pc' = "generated"
               /\ generated' = o.text
               /\ UNCHANGED raised
    /\ UNCHANGED <<peer, hashseed, code, log, error_info, code_info, path, result, report, response>>

\* debugg: client.models.generate_content(...) and response.text
GenerateContent ==
    /\ pc = "formatted"
    /\ gen_calls' = gen_calls + 1
    /\ \E o \in GenOutcomes :
          IF o.kind = "error"
          THEN /\ pc' = "raised"
               /\ raised' = [type |-> "ClientError", msg |-> o.text]
               /\ UNCHANGED generated
          ELSE /\ pc' = "generated"
               /\ generated' = o.text
               /\ UNCHANGED raised
    /\ UNCHANGED <<peer, hashseed, code, log, error_info, code_info, path, result, report, response>>

\* debug_code: return DebugResponse(**result); corrected_code must be a str
Respond ==
    /\ pc = "generated"
    /\ IF generated = None
       THEN /\ pc' = "raised"
            /\ raised' = [type |-> "ValidationError",
                          msg |-> "1 validation error for DebugResponse\ncorrected_code"]
            /\ UNCHANGED response
       ELSE /\ pc' = "responded"
            /\ response' = [status |-> 200, report |-> report, corrected_code |-> generated]
            /\ UNCHANGED raised
    /\ UNCHANGED <<peer, hashseed, code, log, error_info, code_info, path, result, report, gen_calls,
                   generated>>

\* a handler that answers the failure together with the report built so far
HandleExceptionPartial ==
    /\ pc = "raised"
    /\ response' = [status |-> 500, detail |-> raised.msg, report |-> report]
    /\ pc' = "failed"
    /\ UNCHANGED <<peer, hashseed, code, log, error_info, code_info, path, result, report, gen_calls,
                   generated, raised>>

\* debug_code: except Exception as e: raise HTTPException(500, detail=str(e))
HandleException ==
    /\ pc = "raised"
    /\ response' = [status |-> 500, detail |-> raised.msg]
    /\ pc' = "failed"
    /\ UNCHANGED <<peer, hashseed, code, log, error_info, code_info, path, result, report, gen_calls,
                   generated, raised>>

\* the next step of a request given by its locals: debug_code, debugg and
\* analyze_error from the position the request is at, as the set of outcomes
RequestSteps(r, seed) ==
    CASE r.pc = "received" ->
            LET a == ErrorLogAnalyzer_analyze(r.log, seed) IN
            {IF a.raises THEN [r EXCEPT !.pc = "raised", !.raised = a.exc]
             ELSE [r EXCEPT !.pc = "log_analyzed", !.error_info = a.value]}
      [] r.pc = "log_analyzed" ->
            {[r EXCEPT !.pc = "code_analyzed",
                       !.code_info = StaticCodeAnalysis_analyze(r.code, r.error_info)]}
      [] r.pc = "code_analyzed" ->
            {IF get_recommendation_hits(r.error_info, r.code_info)
             THEN [r EXCEPT !.pc = "analyzed", !.path = "rule",
                            !.result = RecommendationResult(get_recommendation(r.error_info, r.code_info))]
             ELSE [r EXCEPT !.pc = "analyzed", !.path = "lm",
                            !.result = RecommendationResult(analyze_complex_error(r.error_info, r.code_info))]}
      [] r.pc = "analyzed" ->
            {[r EXCEPT !.pc = "formatted", !.report = format_output(r.result)]}
      [] r.pc = "formatted" ->
            {IF o.kind = "error"
             THEN [r EXCEPT !.pc = "raised", !.gen_calls = r.gen_calls + 1,
                            !.raised = [type |-> "ClientError", msg |-> o.text]]
             ELSE [r EXCEPT !.pc = "generated", !.gen_calls = r.gen_calls + 1,
                            !.generated = o.text] : o \in GenOutcomes}
      [] r.pc = "generated" ->
            {IF r.generated = None
             THEN [r EXCEPT !.pc = "raised",
                            !.raised = [type |-> "ValidationError",
                                        msg |-> "1 validation error for DebugResponse\ncorrected_code"]]
             ELSE [r EXCEPT !.pc = "responded",
                            !.response = [status |-> 200, report |-> r.report,
                                          corrected_code |-> r.generated]]}
      [] r.pc = "raised" ->
            {[r EXCEPT !.pc = "failed", !.response = [status |-> 500, detail |-> r.raised.msg]]}
      [] OTHER -> {}

\* a step of the second request on an engine that both requests share and that
\* keeps the error record of the last analysed log
PeerStepSharedEngine ==
    \E next \in RequestSteps(peer, hashseed) :
       /\ peer' = next
       /\ error_info' = IF next.pc = "log_analyzed" /\ pc = "log_analyzed"
                         THEN next.error_info ELSE error_info
       /\ UNCHANGED <<pc, hashseed, code, log, code_info, path, result, report,
                      gen_calls, generated, raised, response>>

\* debug_code on another thread: the second request takes its next step on its
\* own engine and its own locals
PeerStep ==
    \E next \in RequestSteps(peer, hashseed) :
       /\ peer' = next
       /\ UNCHANGED <<pc, hashseed, code, log, error_info, code_info, path, result, report,
                      gen_calls, generated, raised, response>>

\* end-to-end runs of a /debug request
Init == Received(PipelineCodes, PipelineLogs)

Next ==
    \/ ErrorAnalyze
    \/ CodeAnalyze
    \/ RuleRecommend
    \/ LMRecommend
    \/ FormatOutput
    \/ GenerateContent
    \/ Respond
    \/ HandleException

Spec == Init /\ [][Next]_vars

\* runs of the log analysis alone, over concatenations of log pieces
InitLog == Received({""}, ChunkLogs)

NextLog == ErrorAnalyze

SpecLog == InitLog /\ [][NextLog]_vars

\* runs of the log analysis over logs that mention identifiers
InitVars == Received({""}, VarLogs)

NextVars == ErrorAnalyze

SpecVars == InitVars /\ [][NextVars]_vars

\* two requests served by one process, their steps interleaved in any order
InitConc ==
    /\ pc = "received"
    /\ hashseed \in HashSeeds
    /\ code \in ConcCodes
    /\ log \in ConcLogs
    /\ error_info = NoErrorInfo
    /\ code_info = NoCodeInfo
    /\ path = "none"
    /\ result = NoResult
    /\ report = None
    /\ gen_calls = 0
    /\ generated = None
    /\ raised = NoException
    /\ response = NoResponse
    /\ peer \in {Request(c, l) : c \in ConcCodes, l \in ConcLogs}

NextConc == Next \/ PeerStep

SpecConc == InitConc /\ [][NextConc]_vars

\* runs of the static analysis over code with markers of several languages
InitLang == Received(LangCodes, {""})

NextLang == ErrorAnalyze \/ CodeAnalyze

SpecLang == InitLang /\ [][NextLang]_vars

\* runs of the log and static analysis, over line numbers and longer code
InitCode == Received(LongCodes, LineLogs)

NextCode == ErrorAnalyze \/ CodeAnalyze

SpecCode == InitCode /\ [][NextCode]_vars

\* runs of step 3 of analyze_error over error and code records of every
\* classification, language and intent: "logical" and "semantic" are members of
\* ErrorClassification that no log produces, the recommender accepts them
RecommendErrors ==
    [error_type : {"NameError", "KeyError", "UnknownError"},
     line_number : {NoneInt, 3},
     variables : {<<>>, <<"price">>},
     full_message : {"KeyError: 'price'"},
     classification : ErrorClassification]

RecommendCodes ==
    [language : {"python", "java", "unknown"},
     error_block : {"x = 1"},
     error_lines : {<<"x = 1">>},
     intent : {"loop", "variable assignment", "code execution"}]

InitRecommend ==
    /\ pc = "code_analyzed"
    /\ hashseed \in HashSeeds
    /\ code = "x = 1"
    /\ log = "KeyError: 'price'"
    /\ error_info \in RecommendErrors
    /\ code_info \in RecommendCodes
    /\ path = "none"
    /\ result = NoResult
    /\ report = None
    /\ gen_calls = 0
    /\ generated = None
    /\ raised = NoException
    /\ response = NoResponse
    /\ peer = NoPeer

NextRecommend == RuleRecommend \/ LMRecommend

SpecRecommend == InitRecommend /\ [][NextRecommend]_vars

(***************************************************************************)
(* Properties                                                              *)
(***************************************************************************)
\* the keys of the seeded rule table
SeededKeys ==
    {<<"IndexError", "python">>, <<"NameError", "python">>, <<"SyntaxError", "python">>,
     <<"ZeroDivisionError", "python">>, <<"AttributeError", "python">>, <<"KeyError", "python">>,
     <<"RecursionError", "python">>, <<"RuntimeError", "python">>,
     <<"JSONDecodeError", "python">>, <<"NullPointerException", "java">>}

\* the seeded entry of a key
SeededEntry(key) == rules_literal[CHOOSE i \in 1..Len(rules_literal) : rules_literal[i].key = key]

\* the result carries the five fields of a recommendation unchanged
CarriesVerbatim(res, rec) ==
    /\ res.explanation = rec.explanation
    /\ res.severity = rec.severity
    /\ res.impact = rec.impact
    /\ res.proposed_fixes = rec.fixes
    /\ res.best_practices = rec.best_practices

\* C1: whenever analyze_error has built its result, the result carries the
\* seeded entry of the exact pair (error type of the log analysis, language of
\* the code analysis) when that pair is a key of the seeded table, whatever the
\* classification, line number, intent and identifiers, and carries exactly the
\* output of the heuristic recommender when the pair is not a key.
C1_ExactKeyLookup ==
    path # "none" =>
        LET key == <<error_info.error_type, code_info.language>> IN
        IF key \in SeededKeys
        THEN path = "rule" /\ CarriesVerbatim(result, SeededEntry(key))
        ELSE path = "lm" /\ CarriesVerbatim(result, analyze_complex_error(error_info, code_info))

\* C1 witness: a catalog hit for a log with a line number and identifiers
C1_Witness ==
    /\ path = "rule"
    /\ error_info.line_number = 2
    /\ error_info.variables # <<>>
    /\ result.explanation = SeededEntry(<<"NameError", "python">>).explanation

\* the rules of the pattern table, as declared, that match a log
MatchingDeclared(raw_log) ==
    {i \in 1..Len(error_patterns_literal) :
        search(error_patterns_literal[i].p, strip(raw_log), TRUE).ok}

\* the least member of a non-empty set of indices
Least(S) == CHOOSE i \in S : \A j \in S : i <= j

\* C2: a record returned for a log that matches at least one rule of the pattern
\* table has a non-empty error_type and the classification that is the hint of
\* the rule that matched, "syntax" or "runtime"; a record returned for a log
\* that matches no rule has error_type "UnknownError" and classification
\* "unknown".
C2_Classification ==
    pc = "log_analyzed" =>
        LET matching == MatchingDeclared(log) IN
        IF matching # {}
        THEN /\ error_info.error_type # ""
             /\ error_info.classification = error_patterns_literal[Least(matching)].classification
             /\ error_info.classification \in {"syntax", "runtime"}
        ELSE /\ error_info.error_type = "UnknownError"
             /\ error_info.classification = "unknown"

\* C2 witness: a record of classification "syntax" returned for a matched log
C2_Witness ==
    /\ pc = "log_analyzed"
    /\ error_info.classification = "syntax"
    /\ MatchingDeclared(log) # {}

\* stands for a line number whose conversion raises
NotAnInt == NoneInt - 1

\* what one rule alone extracts from a log
ExtractedBy(rule, raw_log) ==
    LET groups == search(rule.p, strip(raw_log), TRUE).groups
        digit_groups == {i \in 1..Len(groups) : isdigit(groups[i])}
    IN [error_type |-> IF Len(groups) > 0 THEN groups[1] ELSE "UnknownError",
        line_number |-> IF digit_groups = {} THEN NoneInt
                        ELSE IF IntRaises(groups[Least(digit_groups)]) THEN NotAnInt
                        ELSE int(groups[Least(digit_groups)]),
        classification |-> rule.classification]

\* C3: the record returned for a log matched by one or more rules takes
\* error_type, line_number and classification from the earliest declared rule
\* that matches; later matching rules have no influence.
C3_FirstMatchWins ==
    pc = "log_analyzed" =>
        LET matching == MatchingDeclared(log)
            first == ExtractedBy(error_patterns_literal[Least(matching)], log)
        IN matching # {} =>
              /\ error_info.error_type = first.error_type
              /\ error_info.line_number = first.line_number
              /\ error_info.classification = first.classification

\* C3 witness: a log matched by several rules, a later one of which would give
\* another classification and another error type
C3_Witness ==
    /\ pc = "log_analyzed"
    /\ LET matching == MatchingDeclared(log) IN
       \E j \in matching :
          LET later == ExtractedBy(error_patterns_literal[j], log) IN
          /\ j > Least(matching)
          /\ later.classification # error_info.classification
          /\ later.error_type # error_info.error_type

\* C4: the pipeline is total: no exception is raised before the generation
\* call, whatever the code and the log, and every field of the bundle that
\* analyze_error returns is populated.
C4_PipelineTotal ==
    /\ ~(pc = "raised" /\ gen_calls = 0)
    /\ path # "none" =>
          /\ result.explanation # None
          /\ result.severity \in ErrorSeverity
          /\ result.impact # None
          /\ result.priority_reasoning # None

\* the answer of the endpoint is a success response that carries both report
\* and corrected_code, or a failure of status 500 whose detail is the text of
\* the exception, and nothing is answered before the end
OutcomeShape ==
    /\ pc = "responded" =>
          /\ response = [status |-> 200, report |-> report, corrected_code |-> generated]
          /\ report # None
          /\ generated # None
    /\ pc = "failed" =>
          /\ response = [status |-> 500, detail |-> raised.msg]
          /\ raised # NoException
    /\ pc \notin {"responded", "failed"} => response = NoResponse

\* the number of steps a request can still take from a position; the request
\* has ended at "responded" and "failed", elsewhere a step is defined
StepsLeft(position) ==
    CASE position = "received" -> 7
      [] position = "log_analyzed" -> 6
      [] position = "code_analyzed" -> 5
      [] position = "analyzed" -> 4
      [] position = "formatted" -> 3
      [] position = "generated" -> 2
      [] position = "raised" -> 1
      [] position \in {"responded", "failed"} -> 0

\* C5: a request ends in exactly one of two outcomes: a success response that
\* carries both report and corrected_code, or a failure of status 500 whose
\* detail is the text of the exception; no failure carries a success field,
\* whichever step raised. Every step brings the request nearer to its end.
C5_AllOrNothing == []OutcomeShape /\ [][StepsLeft(pc') < StepsLeft(pc)]_vars

\* C5 witness: a request that failed in the generation call, after its report
\* had been rendered
C5_Witness ==
    /\ pc = "failed"
    /\ raised.type = "ClientError"
    /\ report # None
    /\ response.status = 500

Scenario2Code == "total = calculate_total()"

Scenario2Log == "NameError: name 'price' is not defined"

\* the titles of a list of fixes
Titles(fixes) == [i \in 1..Len(fixes) |-> fixes[i].title]

\* C6 (as stated): for code "total = calculate_total()" and log "NameError:
\* name 'price' is not defined" the identifiers are {"price"}, the lookup hits
\* (NameError, python) and the fixes are the seeded two-entry NameError template.
C6_Scenario2 ==
    (code = Scenario2Code /\ log = Scenario2Log /\ path # "none") =>
        /\ Range(error_info.variables) = {"price"}
        /\ path = "rule"
        /\ result.proposed_fixes = SeededEntry(<<"NameError", "python">>).fixes
        /\ Titles(result.proposed_fixes) = <<"Define Variable", "Check Imports">>

\* C6 (amended): for the log "NameError: name 'price' is not defined" the
\* identifiers are {"price"} and the error type is NameError; the code "total =
\* calculate_total()" has no language marker, so the language is "unknown", the
\* lookup misses and the fixes are the heuristic ones, "Add Error Handling" then
\* "Initialize price"; with the python marker line "def calculate_total():"
\* before it the lookup hits (NameError, python) and the fixes are the seeded
\* two-entry template.
C6_Scenario2Amended ==
    (log = Scenario2Log /\ path # "none") =>
        /\ Range(error_info.variables) = {"price"}
        /\ error_info.error_type = "NameError"
        /\ code = Scenario2Code =>
              /\ code_info.language = "unknown"
              /\ path = "lm"
              /\ Titles(result.proposed_fixes) = <<"Add Error Handling", "Initialize price">>
        /\ code = "def calculate_total():\n" \o Scenario2Code =>
              /\ code_info.language = "python"
              /\ path = "rule"
              /\ result.proposed_fixes = SeededEntry(<<"NameError", "python">>).fixes
              /\ Titles(result.proposed_fixes) = <<"Define Variable", "Check Imports">>

\* C6 witness: the scenario's input has gone through analyze_error
C6_Witness ==
    /\ code = Scenario2Code
    /\ log = Scenario2Log
    /\ pc = "analyzed"
    /\ Len(result.proposed_fixes) = 2

Scenario3Log == "CustomWeirdError: something broke"

\* C7 (as stated): for the log "CustomWeirdError: something broke" and code
\* whose language gives no catalog key, the heuristic path is taken, severity is
\* Medium and the explanation contains the error type and the language name.
C7_Scenario3 ==
    (log = Scenario3Log /\ path # "none"
       /\ <<error_info.error_type, code_info.language>> \notin SeededKeys) =>
        /\ path = "lm"
        /\ result.severity = "Medium"
        /\ Contains(result.explanation, "CustomWeirdError")
        /\ Contains(result.explanation, code_info.language)

\* C7 (amended): for that log the generic rule (\w+Error): (.+) matches, the
\* classification is runtime, the heuristic path is taken and severity is High;
\* the explanation contains the error type and the detected (or "unknown")
\* language name.
C7_Scenario3Amended ==
    (log = Scenario3Log /\ path # "none"
       /\ <<error_info.error_type, code_info.language>> \notin SeededKeys) =>
        /\ path = "lm"
        /\ error_info.error_type = "CustomWeirdError"
        /\ error_info.classification = "runtime"
        /\ result.severity = "High"
        /\ Contains(result.explanation, "CustomWeirdError")
        /\ Contains(result.explanation, code_info.language)

\* C7 witness: the scenario's log analysed with code of no known language
C7_Witness ==
    /\ log = Scenario3Log
    /\ pc = "analyzed"
    /\ path = "lm"
    /\ code_info.language = "unknown"

\* the number of lines of a text
LineCount(text) == 1 + Cardinality({i \in 1..Len(text) : Ch(text, i) = "\n"})

\* C8: the static analysis with a line number greater than the number of lines
\* of the code returns, with an empty error_lines and the whole source as
\* error_block.
C8_LineBeyondEnd ==
    (pc = "code_analyzed" /\ error_info.line_number > LineCount(code)) =>
          /\ code_info.error_lines = <<>>
          /\ code_info.error_block = code

\* C8 witness: code of several lines analysed with a line number beyond its end
C8_Witness ==
    /\ pc = "code_analyzed"
    /\ LineCount(code) >= 2
    /\ error_info.line_number = LineCount(code) + 1

\* the severity the mapping gives a classification
ExpectedSeverity(classification) ==
    CASE classification = "syntax" -> "Critical"
      [] classification = "runtime" -> "High"
      [] classification \in {"logical", "semantic", "unknown"} -> "Medium"

\* the fixed impact sentence of a severity
ExpectedImpact(severity) ==
    CASE severity = "Critical" -> "This will prevent the program from running entirely and must be fixed immediately."
      [] severity = "High" -> "This will cause the program to crash and may result in data loss or unexpected behavior."
      [] severity = "Medium" -> "This may cause incorrect results or unexpected behavior in certain conditions."
      [] severity = "Low" -> "This is a minor issue that may affect code quality or performance."

\* C9: on the heuristic path the severity of the bundle is given by the
\* classification of the error record alone (syntax -> Critical, runtime ->
\* High, logical, semantic and unknown -> Medium), whatever the error type,
\* language, intent and identifiers, and the impact is the fixed sentence of
\* that severity.
C9_SeverityByClassification ==
    path = "lm" =>
        /\ result.severity = ExpectedSeverity(error_info.classification)
        /\ result.impact = ExpectedImpact(result.severity)

\* C9 witness: a heuristic bundle for a record of classification "logical"
C9_Witness ==
    /\ path = "lm"
    /\ error_info.classification = "logical"
    /\ error_info.variables # <<>>
    /\ result.severity = "Medium"

\* the fixed priority sentence of a severity
ExpectedReasoning(severity) ==
    CASE severity = "Critical" -> "This error prevents code execution entirely and should be addressed immediately to restore functionality."
      [] severity = "High" -> "This error causes program crashes and may lead to data loss, making it a high priority for resolution."
      [] severity = "Medium" -> "This error may cause incorrect behavior under certain conditions and should be addressed in the next development cycle."
      [] severity = "Low" -> "This is a code quality issue that can be addressed during routine maintenance or refactoring."

\* C10: in every bundle analyze_error returns, on either branch, the
\* priority_reasoning is the fixed sentence of the bundle's own severity and
\* never the fallback text.
C10_PriorityReasoning ==
    path # "none" =>
        /\ result.severity \in ErrorSeverity
        /\ result.priority_reasoning = ExpectedReasoning(result.severity)
        /\ result.priority_reasoning # "Priority assessment unavailable."

\* C10 witness: a catalog bundle of severity Critical
C10_Witness ==
    /\ path = "rule"
    /\ result.severity = "Critical"
    /\ pc = "analyzed"

\* C11: two runs of analyze_error and format_output on the same (code, log)
\* give the same report text, whichever process serves them: the report of a
\* request is the report every process, of any hash seed, renders for its
\* input, also when the log mentions several identifiers.
C11_Determinism ==
    pc = "formatted" => \A seed \in HashSeeds : report = ReportOf(code, log, seed)

\* C12: identifier extraction runs on every log, matched by a rule or not; its
\* result holds each identifier once, however often and by however many
\* sub-patterns it was captured, and the identifiers returned are those any
\* sub-pattern captures, whatever the order the sub-patterns are applied in.
C12_Identifiers ==
    pc = "log_analyzed" =>
        LET text == strip(log)
            found == error_info.variables
        IN /\ Cardinality(Range(found)) = Len(found)
           /\ Range(found) = UNION {Range(findall(var_patterns[k], text)) : k \in 1..Len(var_patterns)}
           /\ Range(found) = Range(ExtendAll(Reverse(var_patterns), 1, text))

\* C12 witness: a log no rule matches, in which two overlapping sub-patterns
\* capture the same identifier
C12_Witness ==
    /\ pc = "log_analyzed"
    /\ log = "undefined variable 'x'"
    /\ error_info.classification = "unknown"
    /\ Len(ExtendAll(var_patterns, 1, log)) = 2
    /\ error_info.variables = <<"x">>

\* at most one generation call has been issued, only with the report rendered,
\* and a failed call leaves no generated text and no success response
GenerationOnce ==
    /\ gen_calls <= 1
    /\ gen_calls = 1 => report # None
    /\ raised.type = "ClientError" =>
          /\ pc \in {"raised", "failed"}
          /\ gen_calls = 1
          /\ generated = None
          /\ response.status # 200

\* the call is issued from the position after format_output, for the first
\* time, and leaves the report as it is; a raised exception is answered by the
\* failure whose detail is its text
GenerationStep ==
    /\ gen_calls' # gen_calls =>
          /\ pc = "formatted"
          /\ gen_calls = 0
          /\ report # None
          /\ report' = report
    /\ pc = "raised" =>
          /\ pc' = "failed"
          /\ response' = [status |-> 500, detail |-> raised.msg]

\* C13: for a request the generation call is issued at most once, only after
\* the report has been rendered, and never again; when the call fails the
\* request ends in the failure outcome, never in a success response.
C13_SingleGeneration == []GenerationOnce /\ [][GenerationStep]_vars

\* C13 witness: a request whose only generation call failed and that was
\* answered by the failure carrying the text of that error
C13_Witness ==
    /\ pc = "failed"
    /\ gen_calls = 1
    /\ response = [status |-> 500, detail |-> "503 UNAVAILABLE"]

\* C14: under any interleaving of the steps of two requests, the report of each
\* is the report its input gives when the request is served alone by the same
\* process.
C14_Independence ==
    /\ pc = "formatted" => report = ReportOf(code, log, hashseed)
    /\ peer.pc = "formatted" => peer.report = ReportOf(peer.code, peer.log, hashseed)

\* C14 witness: a request whose report is rendered while a second request, on
\* another log, has analysed its log and not yet rendered its report
C14_Witness ==
    /\ pc = "formatted"
    /\ peer.pc = "log_analyzed"
    /\ peer.log # log
    /\ peer.error_info.error_type # error_info.error_type

\* the error line is a line of the code
LineInCode == error_info.line_number >= 1 /\ error_info.line_number <= LineCount(code)

\* C15 (as stated): for a line number n with 1 <= n <= number of lines the
\* context lines are the error line with up to 2 lines before it and 1 line
\* after it, clipped to the source: lines n-2 .. n+1 in 1-based numbering.
C15_ContextWindow ==
    (pc = "code_analyzed" /\ LineInCode) =>
        LET lines == split(code)
            n == error_info.line_number
        IN code_info.error_lines = SubSeq(lines, Max(1, n - 2), Min(Len(lines), n + 1))

\* C15 (amended): for a line number n with 1 <= n <= number of lines the
\* context lines are the error line with up to 1 line before it and 1 line
\* after it, clipped to the source: lines n-1 .. n+1 in 1-based numbering, the
\* error line always among them.
C15_ContextWindowAmended ==
    (pc = "code_analyzed" /\ LineInCode) =>
        LET lines == split(code)
            n == error_info.line_number
            first == Max(1, n - 1)
        IN /\ code_info.error_lines = SubSeq(lines, first, Min(Len(lines), n + 1))
           /\ Len(code_info.error_lines) <= 3
           /\ code_info.error_lines[n - first + 1] = lines[n]

\* C15 witness: a line away from both edges of the code
C15_Witness ==
    /\ pc = "code_analyzed"
    /\ error_info.line_number = 3
    /\ LineCount(code) >= 5
    /\ Len(code_info.error_lines) = 3

\* C16: for a line number n with 1 <= n <= number of lines L the block is the
\* run of lines from index s to index min(L, n+5)-1 (0-based), s the largest
\* index <= n-1 whose trimmed line contains a block keyword and s = n-1 when no
\* line at or above the error line contains one; the block contains the error
\* line and at most 5 lines after it.
C16_BlockExtent ==
    (pc = "code_analyzed" /\ LineInCode) =>
        LET lines == split(code)
            n == error_info.line_number
            opening == {i \in 0..(n - 1) : AnyKeywordIn(block_keywords, strip(lines[i + 1]))}
            s == IF opening = {} THEN n - 1
                 ELSE CHOOSE i \in opening : \A j \in opening : j <= i
            end == Min(Len(lines), n + 5)
        IN /\ code_info.error_block = join(SubSeq(lines, s + 1, end))
           /\ s <= n - 1
           /\ n <= end
           /\ end - n <= 5

\* C16 witness: an error line below the first line, with no keyword at or above
\* it and 5 lines after it: the block starts at the error line
C16_Witness ==
    /\ pc = "code_analyzed"
    /\ error_info.line_number = 2
    /\ LineCount(code) = 2 + 5
    /\ \A i \in 1..2 : ~AnyKeywordIn(block_keywords, split(code)[i])
    /\ code_info.error_block = join(SubSeq(split(code), 2, 2 + 5))
    /\ code_info.error_block # code

\* the languages, by position in language_patterns, with a marker in the text
LanguagesPresent(text) ==
    {k \in 1..Len(language_patterns) :
        \E i \in 1..Len(language_patterns[k].patterns) :
           search(language_patterns[k].patterns[i], text, FALSE).ok}

\* C17: the language detected is the first one, in the declared order python,
\* java, javascript, c, cpp, that has a marker in the code, however many
\* markers later languages have; it is "unknown" exactly when no language has
\* a marker in the code.
C17_FirstLanguage ==
    pc = "code_analyzed" =>
        LET having == LanguagesPresent(code) IN
        /\ [k \in 1..Len(language_patterns) |-> language_patterns[k].lang]
              = <<"python", "java", "javascript", "c", "cpp">>
        /\ code_info.language = "unknown" <=> having = {}
        /\ having # {} => code_info.language = language_patterns[Least(having)].lang

\* C17 witness: code in which a later language has more markers than the
\* language detected
C17_Witness ==
    /\ pc = "code_analyzed"
    /\ code_info.language = "javascript"
    /\ CountMatches(language_patterns[5].patterns, code)
          > CountMatches(language_patterns[3].patterns, code)

\* the place, in the pattern table as declared, of the rule written for logs
\* of the shape "SyntaxError: <message> at line <N>"
SyntaxRule ==
    CHOOSE i \in 1..Len(error_patterns_literal) :
        error_patterns_literal[i].re = "SyntaxError: (.+) at line (\\d+)"

\* C18: the rule declared for logs of the shape "SyntaxError: <message> at
\* line <N>", with the hint syntax, is the rule that wins for such logs, and
\* every log of that shape is classified syntax.
C18_SyntaxRuleWins ==
    (pc = "log_analyzed" /\ SyntaxRule \in MatchingDeclared(log)) =>
        /\ error_patterns_literal[SyntaxRule].classification = "syntax"
        /\ Least(MatchingDeclared(log)) = SyntaxRule
        /\ error_info.classification = "syntax"

====
